---- MODULE Spec2Model ----
(***************************************************************************)
(* Model of tf2pulumi's NodeJS code generator (src/nodejs.go): the         *)
(* dependency-ordered statement emitter (generate / generateNode) and the  *)
(* schema-driven value serializer (computeProperty and friends).           *)
(***************************************************************************)
EXTENDS Integers, Sequences, FiniteSets, TLC

VARIABLES
    deps,      \* the graph: node -> its dependency list (node.dependencies())
    fails,     \* the hooks of `lang` that return an error
    pc,        \* position of generate
    done,      \* generate's `done` map
    todo,      \* generate's `todo` slice
    seen,      \* keys of g.locals / g.resources the range loops have visited
    stack,     \* call stack of generateNode: frames [n, i]
    emitted,   \* the hook invocations so far, in order
    err,       \* the error generate returns (Nil while none)
    run,       \* 1 for the first run of generate on the graph, 2 for the second
    first,     \* what the first run emitted and returned
    job,       \* the input one function of the serializer is applied to
    out        \* what that function returned

vars == <<deps, fails, pc, done, todo, seen, stack, emitted, err, run, first, job, out>>

----------------------------------------------------------------------------
(* Bounds of the model. *)

\* number of dependency edges of the graph
MaxEdges == 2
\* number of hooks that fail
MaxFail == 1
\* length of a slice
MaxLen == 2

----------------------------------------------------------------------------
(* The graph. *)

Variables == {"v1"}
Locals == {"l1"}
Resources == {"r1", "r2"}
\* a resource node that g.resources does not hold
Dangling == {"x1"}
Outputs == <<"o1">>
Providers == <<"p1">>

Range(s) == {s[i] : i \in 1..Len(s)}

Nodes == Variables \cup Locals \cup Resources \cup Dangling \cup Range(Outputs)

Sources == (Nodes \ Variables) \cup Range(Providers)

Edges == Sources \X Nodes

Hooks == {"preamble", "variables", "outputs"} \cup Locals \cup Resources \cup Dangling

kindOf(n) ==
    IF n \in Variables THEN "variable"
    ELSE IF n \in Locals THEN "local"
    ELSE IF n \in Resources \cup Dangling THEN "resource"
    ELSE "output"

RECURSIVE EdgeSeqs(_)
EdgeSeqs(k) ==
    IF k = 0 THEN {<<>>}
    ELSE LET S == EdgeSeqs(k - 1)
         IN  S \cup {Append(s, e) : s \in S, e \in Edges}

RECURSIVE TargetsOf(_, _)
TargetsOf(es, n) ==
    IF es = <<>> THEN <<>>
    ELSE IF es[1][1] = n /\ es[1][2] \notin Range(TargetsOf(Tail(es), n))
         THEN <<es[1][2]>> \o TargetsOf(Tail(es), n)
         ELSE TargetsOf(Tail(es), n)

RECURSIVE FailSets(_)
FailSets(k) ==
    IF k = 0 THEN {{}}
    ELSE LET S == FailSets(k - 1)
         IN  S \cup {s \cup {h} : s \in S, h \in Hooks}

----------------------------------------------------------------------------
(* Errors. *)

Nil == <<>>
ErrHook(h) == <<"hook failed", h>>
ErrNodeType(n) == <<"unexpected node type", n>>
ErrProvider(d) == <<"unsupported provider dependency", d>>
ErrUnsatisfied(d) == <<"output has unsatisfied dependency", d>>

----------------------------------------------------------------------------
(* Strings are sequences of characters; a character is a one-character     *)
(* string.                                                                 *)

Lower == <<"a", "b", "c", "d", "e", "f", "g", "h", "i", "j", "k", "l", "m", "n", "o", "p", "q", "r", "s", "t", "u", "v", "w", "x", "y", "z">>
Upper == <<"A", "B", "C", "D", "E", "F", "G", "H", "I", "J", "K", "L", "M", "N", "O", "P", "Q", "R", "S", "T", "U", "V", "W", "X", "Y", "Z">>

\* the characters in ASCII order
Ascii == <<" ", "\"", "-", ".", "0", "1", "2", "3", "4", "5", "6", "7", "8", "9">> \o Upper \o <<"\\", "_">> \o Lower

Code(c) == CHOOSE i \in 1..Len(Ascii) : Ascii[i] = c

\* s < t, bytewise
RECURSIVE StrLess(_, _)
StrLess(s, t) ==
    IF t = <<>> THEN FALSE
    ELSE IF s = <<>> THEN TRUE
    ELSE IF s[1] = t[1] THEN StrLess(Tail(s), Tail(t))
    ELSE Code(s[1]) < Code(t[1])

\* strings.ContainsAny(s, chars)
ContainsAny(s, chars) == \E i \in 1..Len(s) : s[i] \in chars

\* strings.IndexRune(s, c); 0 stands for Go's -1, positions count from 1
IndexRune(s, c) ==
    IF \E i \in 1..Len(s) : s[i] = c
    THEN CHOOSE i \in 1..Len(s) : s[i] = c /\ \A j \in 1..(i - 1) : s[j] # c
    ELSE 0

\* strings.Split(s, sep) for a one-character separator
RECURSIVE Split(_, _)
Split(s, sep) ==
    LET i == IndexRune(s, sep)
    IN  IF i = 0 THEN <<s>>
        ELSE <<SubSeq(s, 1, i - 1)>> \o Split(SubSeq(s, i + 1, Len(s)), sep)

\* strings.Join(ss, sep)
RECURSIVE Join(_, _)
Join(ss, sep) ==
    IF ss = <<>> THEN <<>>
    ELSE IF Len(ss) = 1 THEN ss[1]
    ELSE ss[1] \o sep \o Join(Tail(ss), sep)

\* fmt.Sprintf("%q", s)
RECURSIVE Escape(_)
Escape(s) ==
    IF s = <<>> THEN <<>>
    ELSE (IF s[1] \in {"\"", "\\"} THEN <<"\\", s[1]>> ELSE <<s[1]>>)
         \o Escape(Tail(s))

Quote(s) == <<"\"">> \o Escape(s) \o <<"\"">>

\* fmt.Sprintf("%v", n) for an int n >= 0
RECURSIVE FormatInt(_)
FormatInt(n) ==
    LET d == <<<<"0", "1", "2", "3", "4", "5", "6", "7", "8", "9">>[(n % 10) + 1]>>
    IN  IF n < 10 THEN d ELSE FormatInt(n \div 10) \o d

\* fmt.Sprintf("%v", b)
FormatBool(b) == IF b THEN <<"t", "r", "u", "e">> ELSE <<"f", "a", "l", "s", "e">>

ToUpper(c) ==
    IF \E i \in 1..Len(Lower) : Lower[i] = c
    THEN Upper[CHOOSE i \in 1..Len(Lower) : Lower[i] = c]
    ELSE c

----------------------------------------------------------------------------
(* Optional values (Go pointers and interfaces): <<>> is nil, <<x>> is x.  *)

None == <<>>
Some(x) == <<x>>

\* m[k] of a Go map: nil when k is not a key
MapGet(m, k) == IF k \in DOMAIN m THEN Some(m[k]) ELSE None

----------------------------------------------------------------------------
(* The schema triple and its accessors. *)

\* schemas{}
NoSchemas == [tf |-> None, tfRes |-> None, pulumi |-> None]

\* schemas.propertySchemas
propertySchemas(s, key) ==
    LET tf == IF s.tfRes # None /\ s.tfRes[1].Schema # None
              THEN MapGet(s.tfRes[1].Schema[1], key)
              ELSE None
        tfRes == IF tf # None /\ tf[1].Elem.kind = "resource"
                 THEN Some(tf[1].Elem.res)
                 ELSE None
        pulumi == IF s.pulumi # None /\ s.pulumi[1].Fields # None
                  THEN MapGet(s.pulumi[1].Fields[1], key)
                  ELSE None
    IN  [tf |-> tf, tfRes |-> tfRes, pulumi |-> pulumi]

\* schemas.elemSchemas
elemSchemas(s) ==
    [tf     |-> IF s.tf # None /\ s.tf[1].Elem.kind = "schema"
                THEN Some(s.tf[1].Elem.sch) ELSE None,
     tfRes  |-> IF s.tf # None /\ s.tf[1].Elem.kind = "resource"
                THEN Some(s.tf[1].Elem.res) ELSE None,
     pulumi |-> IF s.pulumi # None THEN s.pulumi[1].Elem ELSE None]

\* schemas.astType
astType(s) ==
    IF s.tf # None
    THEN CASE s.tf[1].Type = "TypeBool" -> "TypeBool"
           [] s.tf[1].Type \in {"TypeInt", "TypeFloat"} -> "TypeFloat"
           [] s.tf[1].Type = "TypeString" -> "TypeString"
           [] s.tf[1].Type \in {"TypeList", "TypeSet"} -> "TypeList"
           [] s.tf[1].Type = "TypeMap" -> "TypeMap"
           [] OTHER -> "TypeUnknown"
    ELSE IF s.tfRes # None THEN "TypeMap"
    ELSE "TypeUnknown"

\* tfbridge.IsMaxItemsOne(tfs, info)
IsMaxItemsOne(tfs, info) ==
    IF tfs = None THEN FALSE
    ELSE IF info # None /\ info[1].MaxItemsOne # None THEN info[1].MaxItemsOne[1]
    ELSE tfs[1].MaxItems = 1

----------------------------------------------------------------------------
(* Names. *)

Separators == {" ", "-", "."}

underscore(r) == IF r \in Separators THEN "_" ELSE r

\* strings.Map(underscore, s)
MapUnderscore(s) == [i \in 1..Len(s) |-> underscore(s[i])]

\* resName
resName(typ, name) ==
    LET n == typ \o <<"_">> \o name
    IN  IF ContainsAny(n, Separators) THEN MapUnderscore(n) ELSE n

\* tfbridge.TerraformToPulumiName(name, sch, upper): camel case, leading
\* underscores kept; the name of a list or set that is not max-items-one
\* is pluralized
RECURSIVE camel(_, _, _, _)
camel(name, i, nextCap, activated) ==
    IF i > Len(name) THEN <<>>
    ELSE IF name[i] = "_" /\ activated
         THEN camel(name, i + 1, TRUE, activated)
         ELSE <<IF nextCap THEN ToUpper(name[i]) ELSE name[i]>>
              \o camel(name, i + 1, FALSE, activated \/ name[i] # "_")

TerraformToPulumiName(name, sch, upper) ==
    LET plural == IF /\ sch # None
                     /\ sch[1].Type \in {"TypeList", "TypeSet"}
                     /\ sch[1].MaxItems # 1
                  THEN name \o <<"s">> ELSE name
    IN  camel(plural, 1, upper, FALSE)

\* tsName
tsName(tfName, tfSchema, schemaInfo, isObjectKey) ==
    IF schemaInfo # None /\ schemaInfo[1].Name # <<>>
    THEN schemaInfo[1].Name
    ELSE IF ContainsAny(tfName, Separators)
         THEN IF isObjectKey
              THEN <<"\"">> \o tfName \o <<"\"">>
              ELSE MapUnderscore(tfName)
         ELSE TerraformToPulumiName(tfName, tfSchema, FALSE)

\* coerceProperty
coerceProperty(value, valueType, propertyType) ==
    IF valueType = propertyType \/ valueType # "TypeString"
    THEN value
    ELSE CASE propertyType = "TypeBool" ->
                  IF value = <<"\"", "t", "r", "u", "e", "\"">> THEN <<"t", "r", "u", "e">>
                  ELSE IF value = <<"\"", "f", "a", "l", "s", "e", "\"">> THEN <<"f", "a", "l", "s", "e">>
                  ELSE <<"(">> \o value \o <<" ", "=", "=", "=", " ", "\"", "t", "r", "u", "e", "\"", ")">>
           [] propertyType \in {"TypeInt", "TypeFloat"} ->
                  <<"N", "u", "m", "b", "e", "r", ".", "p", "a", "r", "s", "e", "F", "l", "o", "a", "t", "(">> \o value \o <<")">>
           [] OTHER -> value

----------------------------------------------------------------------------
(* Results of the compiler: (text, type, error). A nil-pointer dereference *)
(* panics. `items` records every element and property serialized on the    *)
(* way: its path in the value, the text and type it compiled to, the       *)
(* lattice type of its schema and the text emitted for it.                 *)

Ok(text, typ) == [st |-> "ok", text |-> text, typ |-> typ, msg |-> "", items |-> <<>>]
Err(msg) == [st |-> "err", text |-> <<>>, typ |-> "TypeInvalid", msg |-> msg, items |-> <<>>]
Panic == [st |-> "panic", text |-> <<>>, typ |-> "TypeInvalid",
          msg |-> "nil pointer dereference", items |-> <<>>]

\* the path element of the element at Go index i
Idx(i) == <<"#">> \o FormatInt(i)

Under(k, items) == [i \in 1..Len(items) |-> [items[i] EXCEPT !.path = <<k>> \o @]]

----------------------------------------------------------------------------
(* The graph the generator has stashed, and the provider metadata. *)

SchemaOf(typ, elem, maxItems) == [Type |-> typ, Elem |-> elem, MaxItems |-> maxItems]
NoElem == [kind |-> "none"]
ElemSchema(s) == [kind |-> "schema", sch |-> s]
ElemResource(r) == [kind |-> "resource", res |-> r]

BoolSchema == SchemaOf("TypeBool", NoElem, 0)
IntSchema == SchemaOf("TypeInt", NoElem, 0)
StringSchema == SchemaOf("TypeString", NoElem, 0)
BoolList == SchemaOf("TypeList", ElemSchema(BoolSchema), 0)
OneBool == SchemaOf("TypeList", ElemSchema(BoolSchema), 1)
Block == [Schema |-> Some(<<"o", "n">> :> BoolSchema)]
OneBlock == SchemaOf("TypeList", ElemResource(Block), 1)

\* the schema.Resource of the resource type a_b
ResourceAB ==
    [Schema |-> Some(<<"o", "n">> :> BoolSchema @@ <<"n">> :> IntSchema @@ <<"s">> :> StringSchema
                     @@ <<"l">> :> BoolList @@ <<"o">> :> OneBool @@ <<"r">> :> OneBlock
                     @@ <<"a", "-", "b">> :> BoolSchema)]

SchemaInfoOf(name, fields, elem, maxItemsOne) ==
    [Name |-> name, Fields |-> fields, Elem |-> elem, MaxItemsOne |-> maxItemsOne]

\* the tfbridge overrides of a_b: the property on is renamed, l collapses
FieldsAB ==
    Some(<<"o", "n">> :> SchemaInfoOf(<<"e", "n", "a", "b", "l", "e", "d">>, None, None, None)
         @@ <<"l">> :> SchemaInfoOf(<<>>, None, None, Some(TRUE)))

\* a provider whose metadata knows a_b but has no entry for a_c
ProviderA ==
    [info |-> Some([ResourcesMap |-> (<<"a", "_", "b">> :> ResourceAB @@ <<"a", "_", "c">> :> ResourceAB),
                    Resources |-> (<<"a", "_", "b">> :> [Tok |-> <<"a", ":", "m", "/", "b", ":", "B">>, Fields |-> FieldsAB])])]

\* a provider without metadata
ProviderD == [info |-> None]

ResourceNode(typ, name, provider) ==
    [Type |-> typ, Name |-> name, provider |-> provider]

GraphResources ==
    <<"a", "_", "b", ".", "x">> :> ResourceNode(<<"a", "_", "b">>, <<"x">>, ProviderA)
    @@ <<"a", "_", "c", ".", "y">> :> ResourceNode(<<"a", "_", "c">>, <<"y">>, ProviderA)
    @@ <<"d", "_", "e", ".", "z">> :> ResourceNode(<<"d", "_", "e">>, <<"z">>, ProviderD)

\* variable nodes; defaultValue is nil, a string or something else
GraphVariables ==
    <<"v">> :> [defaultValue |-> None]
    @@ <<"s", "_", "v">> :> [defaultValue |-> Some([k |-> "string", s |-> <<"x">>])]
    @@ <<"n">> :> [defaultValue |-> Some([k |-> "int", i |-> 5])]

----------------------------------------------------------------------------
(* The interpolation walker. *)

\* nodeHILWalker.walkLiteral
walkLiteral(n) ==
    IF n.Typex \in {"TypeBool", "TypeInt", "TypeFloat"} THEN Ok(n.text, n.Typex)
    ELSE IF n.Typex = "TypeString" THEN Ok(Quote(n.text), n.Typex)
    ELSE Err("Unexpected literal type")

\* nodeHILWalker.walkVariableAccess, the case *config.ResourceVariable
RECURSIVE walkFields(_, _)
walkFields(elements, sch) ==
    IF elements = <<>> THEN [names |-> <<>>, sch |-> sch]
    ELSE LET s == propertySchemas(sch, elements[1])
             rest == walkFields(Tail(elements), s)
         IN  [names |-> <<TerraformToPulumiName(elements[1], s.tf, FALSE)>> \o rest.names,
              sch |-> rest.sch]

walkResourceVariable(v) ==
    IF v.Multi THEN Err("NYI: multi-resource variables")
    ELSE LET r == MapGet(GraphResources, v.Type \o <<".">> \o v.Name)
         IN  IF r = None THEN Err("unknown resource")
             ELSE LET info == r[1].provider.info
                      resInfo == IF info # None THEN MapGet(info[1].Resources, v.Type)
                                 ELSE None
                  IN  \* resInfo.Fields with resInfo == nil
                      IF info # None /\ resInfo = None THEN Panic
                      ELSE LET sch == IF info # None
                                      THEN [tf |-> None,
                                            tfRes |-> MapGet(info[1].ResourcesMap, v.Type),
                                            pulumi |-> Some(SchemaInfoOf(<<>>, resInfo[1].Fields,
                                                                        None, None))]
                                      ELSE NoSchemas
                               w == walkFields(Split(v.Field, "."), sch)
                           IN  Ok(resName(v.Type, v.Name) \o <<".">> \o Join(w.names, <<".">>),
                                  astType(w.sch))

\* nodeHILWalker.walkVariableAccess, the case *config.UserVariable
walkUserVariable(v) ==
    IF v.Elem # <<>> THEN Err("NYI: user variable elements")
    ELSE LET vn == MapGet(GraphVariables, v.Name)
         IN  IF vn = None THEN Err("unknown variable")
             ELSE Ok(TerraformToPulumiName(v.Name, None, FALSE),
                     IF vn[1].defaultValue # None /\ vn[1].defaultValue[1].k # "string"
                     THEN "TypeUnknown" ELSE "TypeString")

\* nodeHILWalker.walkVariableAccess
walkVariableAccess(n) ==
    CASE n.v.kind = "error" -> Err("invalid interpolation variable")
      [] n.v.kind = "count" -> Err("NYI: count variables")
      [] n.v.kind = "local" -> Err("NYI: local variables")
      [] n.v.kind = "module" -> Err("NYI: module variables")
      [] n.v.kind = "path" -> Err("NYI: path variables")
      [] n.v.kind = "resource" -> walkResourceVariable(n.v)
      [] n.v.kind = "self" -> Err("NYI: self variables")
      [] n.v.kind = "simple" -> Err("NYI: simple variables")
      [] n.v.kind = "terraform" -> Err("NYI: terraform variables")
      [] n.v.kind = "user" -> walkUserVariable(n.v)
      [] OTHER -> Err("unexpected variable type")

RECURSIVE walkNode(_)

\* nodeHILWalker.walkNodes: the results up to and with the first error
RECURSIVE walkNodes(_)
walkNodesFrom(r, ns) == IF r.st # "ok" THEN <<r>> ELSE <<r>> \o walkNodes(Tail(ns))

walkNodes(ns) == IF ns = <<>> THEN <<>> ELSE walkNodesFrom(walkNode(ns[1]), ns)

Failure(rs) == IF rs # <<>> /\ rs[Len(rs)].st # "ok" THEN Some(rs[Len(rs)]) ELSE None

Texts(rs) == [i \in 1..Len(rs) |-> rs[i].text]

\* if err != nil { return "", ast.TypeInvalid, err }
Failed(r) == IF r.st = "panic" THEN Panic ELSE Err(r.msg)

\* nodeHILWalker.walkOutput, given the results of walkNodes(n.Exprs)
outputOf(rs) ==
    IF Failure(rs) # None THEN Failed(Failure(rs)[1])
    ELSE Ok(Join(Texts(rs), <<>>), IF Len(rs) = 1 THEN rs[1].typ ELSE "TypeString")

\* nodeHILWalker.walkOutput
walkOutput(n) == outputOf(walkNodes(n.Exprs))

\* nodeHILWalker.walkConditional, given the results for its three expressions
conditionalOf(rs) ==
    IF Failure(rs) # None THEN Failed(Failure(rs)[1])
    ELSE Ok(<<"(">> \o rs[1].text \o <<" ", "?", " ">> \o rs[2].text \o <<" ", ":", " ">> \o rs[3].text \o <<")">>,
            IF rs[2].typ = "TypeUnknown" THEN rs[3].typ ELSE rs[2].typ)

\* nodeHILWalker.walkConditional
walkConditional(n) == conditionalOf(walkNodes(<<n.CondExpr, n.TrueExpr, n.FalseExpr>>))

\* nodeHILWalker.walkIndex, given the results for target and key
indexOf(rs) ==
    IF Failure(rs) # None THEN Failed(Failure(rs)[1])
    ELSE Ok(rs[1].text \o <<"[">> \o rs[2].text \o <<"]">>, "TypeUnknown")

\* nodeHILWalker.walkIndex
walkIndex(n) == indexOf(walkNodes(<<n.Target, n.Key>>))

\* nodeHILWalker.walkNode; arithmetic and calls are not part of this model
walkNode(n) ==
    CASE n.t = "Conditional" -> walkConditional(n)
      [] n.t = "Index" -> walkIndex(n)
      [] n.t = "LiteralNode" -> walkLiteral(n)
      [] n.t = "Output" -> walkOutput(n)
      [] n.t = "VariableAccess" -> walkVariableAccess(n)
      [] OTHER -> Err("unexpected HIL node type")

\* nodeGenerator.computeHILProperty
computeHILProperty(n) == walkNode(n)

----------------------------------------------------------------------------
(* The value serializer. A value is a bool, an int, a string, a slice, a   *)
(* map or an interpolation node.                                           *)

VBool(b) == [k |-> "bool", b |-> b]
VInt(i) == [k |-> "int", i |-> i]
VString(s) == [k |-> "string", s |-> s]
VSlice(elems) == [k |-> "slice", elems |-> elems]
VMap(m) == [k |-> "map", m |-> m]
VNode(n) == [k |-> "hil", node |-> n]

\* sortedKeys(m): the keys of m in ascending order
RECURSIVE SortedSeq(_)
SortedSeq(S) ==
    IF S = {} THEN <<>>
    ELSE LET least == CHOOSE x \in S : \A y \in S \ {x} : StrLess(x, y)
         IN  <<least>> \o SortedSeq(S \ {least})

sortedKeys(m) == SortedSeq(DOMAIN m)

\* the record of one serialized element or property: the text and type its
\* value compiled to, the lattice type of its schema, and the text emitted
Item(path, text, typ, dest, res) ==
    [path |-> <<path>>, in |-> text, typ |-> typ, dest |-> dest, out |-> res]

Coercion(path, r, text, dest) ==
    Item(path, text, r.typ, dest, coerceProperty(text, r.typ, dest))

RECURSIVE computeProperty(_, _, _)

\* computeSliceProperty: the body of the loop for the element at Go index i,
\* compiled to r, followed by the rest of the loop
sliceElement(r, rest, i, elemIndent, elemSch) ==
    LET elem == IF r.typ = "TypeList" THEN <<".", ".", ".">> \o r.text ELSE r.text
        c == Coercion(Idx(i), r, elem, astType(elemSch))
    IN  IF r.st # "ok" THEN r
        ELSE IF rest.st # "ok" THEN rest
        ELSE [Ok(<<"\n">> \o elemIndent \o c.out \o <<",">> \o rest.text, "TypeList")
                 EXCEPT !.items = Under(Idx(i), r.items) \o <<c>> \o rest.items]

\* computeSliceProperty: the loop over the elements, from element i on
RECURSIVE sliceElements(_, _, _, _)
sliceElements(s, i, elemIndent, elemSch) ==
    IF i > Len(s) THEN Ok(<<>>, "TypeList")
    ELSE sliceElement(computeProperty(s[i], elemIndent, elemSch),
                      sliceElements(s, i + 1, elemIndent, elemSch),
                      i - 1, elemIndent, elemSch)

\* buf.String() of a literal: the opening, the entries, the closing
literal(r, open, indent, close) ==
    IF r.st # "ok" THEN r
    ELSE [r EXCEPT !.text = open \o r.text \o <<"\n">> \o indent \o close]

\* computeSliceProperty: the sequence literal
sliceLiteral(s, indent, sch) ==
    literal(sliceElements(s, 1, indent \o <<" ", " ", " ", " ">>, elemSchemas(sch)), <<"[">>, indent, <<"]">>)

\* computeSliceProperty: the single element of a max-items-one list, compiled
\* to r, is returned as it is
collapsed(r, elemSch) ==
    IF r.st # "ok" THEN r
    ELSE [r EXCEPT !.items = Under(Idx(0), @)
                              \o <<Item(Idx(0), r.text, r.typ, astType(elemSch), r.text)>>]

\* computeSliceProperty that never collapses
computeSliceProperty_literal(s, indent, sch) == sliceLiteral(s, indent, sch)

\* computeSliceProperty
computeSliceProperty(s, indent, sch) ==
    IF IsMaxItemsOne(sch.tf, sch.pulumi)
    THEN CASE Len(s) = 0 -> Ok(<<"u", "n", "d", "e", "f", "i", "n", "e", "d">>, "TypeUnknown")
           [] Len(s) = 1 ->
                  collapsed(computeProperty(s[1], indent, elemSchemas(sch)),
                            elemSchemas(sch))
           [] OTHER -> Err("expected at most one item in list")
    ELSE sliceLiteral(s, indent, sch)

\* computeMapProperty: the body of the loop for one key, whose value compiled
\* to r, followed by the rest of the loop
mapProperty(r, rest, key, propIndent, propSch) ==
    LET c == Coercion(key, r, r.text, astType(propSch))
    IN  IF r.st # "ok" THEN r
        ELSE IF rest.st # "ok" THEN rest
        ELSE [Ok(<<"\n">> \o propIndent \o tsName(key, propSch.tf, propSch.pulumi, TRUE)
                     \o <<":", " ">> \o c.out \o <<",">> \o rest.text, "TypeMap")
                 EXCEPT !.items = Under(key, r.items) \o <<c>> \o rest.items]

\* computeMapProperty: the loop over the sorted keys
RECURSIVE mapProperties(_, _, _, _)
mapProperties(keys, m, propIndent, sch) ==
    IF keys = <<>> THEN Ok(<<>>, "TypeMap")
    ELSE mapProperty(computeProperty(m[keys[1]], propIndent, propertySchemas(sch, keys[1])),
                     mapProperties(Tail(keys), m, propIndent, sch),
                     keys[1], propIndent, propertySchemas(sch, keys[1]))

\* computeMapProperty
computeMapProperty(m, indent, sch) ==
    literal(mapProperties(sortedKeys(m), m, indent \o <<" ", " ", " ", " ">>, sch), <<"{">>, indent, <<"}">>)

\* computeProperty
computeProperty(v, indent, sch) ==
    CASE v.k = "hil" -> computeHILProperty(v.node)
      [] v.k = "bool" -> Ok(FormatBool(v.b), "TypeBool")
      [] v.k = "int" -> Ok(FormatInt(v.i), "TypeFloat")
      [] v.k = "string" -> Ok(Quote(v.s), "TypeString")
      [] v.k = "slice" -> computeSliceProperty(v.elems, indent, sch)
      [] v.k = "map" -> computeMapProperty(v.m, indent, sch)
      [] OTHER -> Err("unexpected property type")

\* generateResource: the dependsOn option
RECURSIVE dependsOn(_)
dependsOn(ds) ==
    IF ds = <<>> THEN <<>>
    ELSE resName(ds[1].Type, ds[1].Name)
         \o (IF Len(ds) > 1 THEN <<",", " ">> ELSE <<>>) \o dependsOn(Tail(ds))

\* nodeGenerator.generateResource: the statement it prints, or its error
generateResourceWith(r, inputs) ==
    LET us == IndexRune(r.Type, "_")
        provider == SubSeq(r.Type, 1, us - 1)
        resourceType == SubSeq(r.Type, us + 1, Len(r.Type))
        info == r.provider.info
        resInfo == IF info # None THEN MapGet(info[1].Resources, r.Type) ELSE None
        components == Split(resInfo[1].Tok, ":")
        mod == components[2]
        slash == IndexRune(mod, "/")
        module == IF resInfo # None THEN <<".">> \o SubSeq(mod, 1, slash - 1) ELSE <<>>
        typeName == IF resInfo # None THEN components[3]
                    ELSE TerraformToPulumiName(resourceType, None, TRUE)
    IN  IF us = 0 THEN Err("NYI: single-resource providers")
        \* resInfo.Fields with resInfo == nil
        ELSE IF info # None /\ resInfo = None THEN Panic
        ELSE IF inputs.st # "ok" THEN inputs
        ELSE IF resInfo # None /\ Len(components) # 3
             THEN Err("unexpected resource token format")
        ELSE IF resInfo # None /\ slash = 0
             THEN Err("unexpected resource module format")
        ELSE [inputs EXCEPT
                 !.text = <<"c", "o", "n", "s", "t", " ">> \o resName(r.Type, r.Name) \o <<" ", "=", " ", "n", "e", "w", " ">> \o provider
                          \o module \o <<".">> \o typeName \o <<"(", "\"">> \o r.Name \o <<"\"", ",", " ">>
                          \o inputs.text
                          \o (IF r.explicitDeps # <<>>
                              THEN <<",", " ", "{", "d", "e", "p", "e", "n", "d", "s", "O", "n", ":", " ", "[">> \o dependsOn(r.explicitDeps) \o <<"]", "}">>
                              ELSE <<>>)
                          \o <<")", ";", "\n">>,
                 !.typ = "TypeUnknown"]

\* nodeGenerator.generateResource: the schema triple of the resource
resourceSchemas(r) ==
    IF r.provider.info # None
    THEN [tf |-> None,
          tfRes |-> MapGet(r.provider.info[1].ResourcesMap, r.Type),
          pulumi |-> Some(SchemaInfoOf(<<>>,
                                       MapGet(r.provider.info[1].Resources, r.Type)[1].Fields,
                                       None, None))]
    ELSE NoSchemas

\* nodeGenerator.generateResource
generateResource(r) ==
    generateResourceWith(r, computeProperty(r.properties, <<>>, resourceSchemas(r)))

----------------------------------------------------------------------------
(* The inputs the serializer is applied to. *)

RECURSIVE SeqsUpTo(_, _)
SeqsUpTo(S, n) ==
    IF n = 0 THEN {<<>>}
    ELSE LET R == SeqsUpTo(S, n - 1)
         IN  R \cup {Append(s, x) : s \in R, x \in S}

ResourceVar(typ, name, field, multi) ==
    [t |-> "VariableAccess",
     v |-> [kind |-> "resource", Type |-> typ, Name |-> name, Field |-> field, Multi |-> multi]]

UserVar(name, elem) ==
    [t |-> "VariableAccess", v |-> [kind |-> "user", Name |-> name, Elem |-> elem]]

OtherVar(kind) == [t |-> "VariableAccess", v |-> [kind |-> kind]]

StringLiteral(s) == [t |-> "LiteralNode", Typex |-> "TypeString", text |-> s]

Leaves ==
    {VBool(TRUE), VInt(5), VString(<<"t", "r", "u", "e">>), VString(<<"x">>),
     VNode(StringLiteral(<<"f", "a", "l", "s", "e">>)),
     VNode(ResourceVar(<<"a", "_", "b">>, <<"x">>, <<"s">>, FALSE))}

Blocks == {VMap(<<"o", "n">> :> VBool(TRUE)), VMap(<<"o", "n">> :> VString(<<"t", "r", "u", "e">>))}

Elements == Leaves \cup Blocks \cup {VSlice(<<VString(<<"x">>)>>)}

Slices == SeqsUpTo(Elements, MaxLen)

Keys == {<<"o", "n">>, <<"n">>, <<"s">>, <<"l">>, <<"o">>, <<"r">>, <<"a", "-", "b">>, <<"z", "z">>}

Maps ==
    {VMap(key :> v) : key \in Keys, v \in Leaves \cup {VSlice(s) : s \in Slices}}
    \cup {VMap(ks[1] :> VBool(TRUE) @@ ks[2] :> v) :
              ks \in {p \in Keys \X Keys : p[1] # p[2]},
              v \in {VBool(TRUE), VString(<<"t", "r", "u", "e">>)}}

\* the schema triple generateResource builds for a resource of type a_b
SchemasAB ==
    [tf |-> None, tfRes |-> Some(ResourceAB),
     pulumi |-> Some(SchemaInfoOf(<<>>, FieldsAB, None, None))]

SliceSchemas == {propertySchemas(SchemasAB, key) : key \in {<<"l">>, <<"o">>, <<"r">>, <<"z", "z">>}}

CoerceTexts == {<<"\"", "t", "r", "u", "e", "\"">>, <<"\"", "f", "a", "l", "s", "e", "\"">>, <<"\"", "x", "\"">>, <<"t", "r", "u", "e">>, <<"5">>, <<"a", "_", "b", "_", "x", ".", "s">>}

AstTypes ==
    {"TypeInvalid", "TypeUnknown", "TypeBool", "TypeInt", "TypeFloat", "TypeString",
     "TypeList", "TypeMap"}

VariableAccesses ==
    {ResourceVar(id[1], id[2], field, multi) :
         id \in {<<<<"a", "_", "b">>, <<"x">>>>, <<<<"a", "_", "c">>, <<"y">>>>, <<<<"d", "_", "e">>, <<"z">>>>, <<<<"a", "_", "b">>, <<"q">>>>},
         field \in {<<"i", "d">>, <<"o", "n">>, <<"a", "-", "b">>, <<"l">>, <<"r", ".", "o", "n">>, <<"m", "y", "_", "k", "e", "y">>},
         multi \in BOOLEAN}
    \cup {UserVar(name, elem) : name \in {<<"v">>, <<"s", "_", "v">>, <<"n">>, <<"w">>}, elem \in {<<>>, <<"0">>}}
    \cup {OtherVar(kind) : kind \in {"error", "count", "local", "module", "path", "self",
                                      "simple", "terraform"}}

ResourceNodes ==
    {[Type |-> r.Type, Name |-> r.Name, provider |-> r.provider,
      properties |-> p, explicitDeps |-> d] :
         r \in {GraphResources[id] : id \in DOMAIN GraphResources}
               \cup {ResourceNode(<<"s", "i", "n", "g", "l", "e">>, <<"x">>, ProviderD)},
         p \in {VMap(key :> v) : key \in {<<"o", "n">>, <<"o">>, <<"a", "-", "b">>},
                                 v \in {VBool(TRUE), VString(<<"t", "r", "u", "e">>),
                                        VSlice(<<VString(<<"t", "r", "u", "e">>)>>)}},
         d \in {<<>>, <<GraphResources[<<"d", "_", "e", ".", "z">>]>>,
                <<GraphResources[<<"d", "_", "e", ".", "z">>], GraphResources[<<"a", "_", "b", ".", "x">>]>>}}

Jobs ==
    {[op |-> "computeProperty", v |-> v, indent |-> <<>>, sch |-> sch] :
         v \in Maps, sch \in {SchemasAB, NoSchemas}}
    \cup {[op |-> "computeSliceProperty", s |-> s, indent |-> <<>>, sch |-> sch] :
              s \in Slices, sch \in SliceSchemas}
    \cup {[op |-> "coerceProperty", value |-> t, valueType |-> vt, propertyType |-> pt] :
              t \in CoerceTexts, vt \in AstTypes, pt \in AstTypes}
    \cup {[op |-> "tsName", tfName |-> key, sch |-> propertySchemas(SchemasAB, key),
           isObjectKey |-> b] : key \in Keys \cup {<<"m", "y", "_", "k", "e", "y">>, <<"a", " ", "b", ".", "c">>}, b \in BOOLEAN}
    \cup {[op |-> "walkVariableAccess", n |-> n] : n \in VariableAccesses}
    \cup {[op |-> "generateResource", r |-> r] : r \in ResourceNodes}

NoJob == [op |-> "none"]
NoOut == [st |-> "none"]

----------------------------------------------------------------------------
(* generate and generateNode. *)

\* generateNode without its loop over the dependencies
dependencies_none(n) == <<>>

\* n.dependencies()
dependencies(n) == deps[n]

\* generateNode without its check of the done map
isDone_never(d, n) == FALSE

\* _, ok := done[n]
isDone(d, n) == n \in d

\* done[n] = struct{}{}
markDone(d, n) == d \cup {n}

\* a caller that drops the error it is handed
failed_ignored(e) == FALSE

\* err != nil
failed(e) == e # Nil

\* provider validation that accepts every node
isVariableNode_any(d) == TRUE

\* _, ok := d.(*variableNode)
isVariableNode(d) == kindOf(d) = "variable"

\* the error the hook h of lang returns
hookError(h) == IF h \in fails THEN ErrHook(h) ELSE Nil

\* the first dependency of a provider that is no variable node, as <<d>>
badProviderDeps ==
    LET all == [i \in 1..Len(Providers) |-> SelectSeq(dependencies(Providers[i]),
                                                     LAMBDA d : ~isVariableNode(d))]
        hit == {i \in 1..Len(Providers) : all[i] # <<>>}
    IN  IF hit = {} THEN <<>>
        ELSE <<Head(all[CHOOSE i \in hit : \A j \in hit : i <= j])>>

\* generate without its check of the outputs' dependencies
unsatisfiedDeps_skipped(d) == <<>>

\* the first dependency of an output that is not in done, as <<d>>
unsatisfiedDeps(d) ==
    LET all == [i \in 1..Len(Outputs) |-> SelectSeq(dependencies(Outputs[i]),
                                                   LAMBDA x : ~isDone(d, x))]
        hit == {i \in 1..Len(Outputs) : all[i] # <<>>}
    IN  IF hit = {} THEN <<>>
        ELSE <<Head(all[CHOOSE i \in hit : \A j \in hit : i <= j])>>

Invocation(h) == [hook |-> h, ok |-> hookError(h) = Nil, doneAt |-> done]

onStack(stk, n) == \E i \in 1..Len(stk) : stk[i].n = n

\* the call generateNode(n, lang, done) made with the callers' frames in stk
Call(n, stk) ==
    IF isDone(done, n)
    THEN stack' = stk /\ pc' = pc
    ELSE /\ stack' = Append(stk, [n |-> n, i |-> 1])
         \* a node entered while it is still on the stack recurses without end
         /\ pc' = IF onStack(stk, n) THEN "overflow" ELSE pc

Return(e) == pc' = "returned" /\ err' = e /\ stack' = <<>>

Init ==
    /\ \E es \in EdgeSeqs(MaxEdges) :
           deps = [n \in Nodes \cup Range(Providers) |-> TargetsOf(es, n)]
    /\ fails \in FailSets(MaxFail)
    /\ pc = "validate"
    /\ done = {}
    /\ todo = <<>>
    /\ seen = {}
    /\ stack = <<>>
    /\ emitted = <<>>
    /\ err = Nil
    /\ run = 1
    /\ first = [emitted |-> <<>>, err |-> Nil]
    /\ job = NoJob
    /\ out = NoOut

ValidateProviders ==
    /\ pc = "validate"
    /\ IF badProviderDeps # <<>>
       THEN Return(ErrProvider(badProviderDeps[1]))
       ELSE pc' = "preamble" /\ UNCHANGED <<err, stack>>
    /\ UNCHANGED <<deps, fails, done, todo, seen, emitted, run, first, job, out>>

GeneratePreamble ==
    /\ pc = "preamble"
    /\ emitted' = Append(emitted, Invocation("preamble"))
    /\ IF failed(hookError("preamble"))
       THEN Return(hookError("preamble"))
       ELSE pc' = "variables" /\ UNCHANGED <<err, stack>>
    /\ UNCHANGED <<deps, fails, done, todo, seen, run, first, job, out>>

GenerateVariables ==
    /\ pc = "variables"
    /\ emitted' = Append(emitted, Invocation("variables"))
    /\ IF failed(hookError("variables"))
       THEN Return(hookError("variables")) /\ UNCHANGED <<done, todo>>
       ELSE /\ pc' = "locals"
            /\ done' = Variables
            /\ todo' = <<>>
            /\ UNCHANGED <<err, stack>>
    /\ UNCHANGED <<deps, fails, seen, run, first, job, out>>

\* one iteration of `for _, l := range g.locals` / `for _, r := range g.resources`
RangeBody(n) ==
    /\ seen' = seen \cup {n}
    /\ IF Len(deps[n]) = 0
       THEN Call(n, <<>>) /\ UNCHANGED todo
       ELSE todo' = Append(todo, n) /\ UNCHANGED <<pc, stack>>
    /\ UNCHANGED <<deps, fails, done, emitted, err, run, first, job, out>>

RangeLocals ==
    /\ pc = "locals" /\ stack = <<>>
    /\ \E l \in Locals \ seen : RangeBody(l)

LocalsDone ==
    /\ pc = "locals" /\ stack = <<>>
    /\ Locals \subseteq seen
    /\ pc' = "resources"
    /\ UNCHANGED <<deps, fails, done, todo, seen, stack, emitted, err, run, first, job, out>>

\* g.resources is a Go map: range visits its entries in an unspecified order
RangeResources ==
    /\ pc = "resources" /\ stack = <<>>
    /\ \E r \in Resources \ seen : RangeBody(r)

ResourcesDone ==
    /\ pc = "resources" /\ stack = <<>>
    /\ Resources \subseteq seen
    /\ pc' = "todo"
    /\ UNCHANGED <<deps, fails, done, todo, seen, stack, emitted, err, run, first, job, out>>

RangeTodo ==
    /\ pc = "todo" /\ stack = <<>>
    /\ todo # <<>>
    /\ todo' = Tail(todo)
    /\ Call(Head(todo), <<>>)
    /\ UNCHANGED <<deps, fails, done, seen, emitted, err, run, first, job, out>>

TodoDone ==
    /\ pc = "todo" /\ stack = <<>>
    /\ todo = <<>>
    /\ pc' = "checkOutputs"
    /\ UNCHANGED <<deps, fails, done, todo, seen, stack, emitted, err, run, first, job, out>>

Running == pc \in {"locals", "resources", "todo"} /\ stack # <<>>

Top == stack[Len(stack)]

\* generateNode: the loop over n.dependencies()
GenerateNodeDeps ==
    /\ Running
    /\ Top.i <= Len(dependencies(Top.n))
    /\ Call(dependencies(Top.n)[Top.i],
            [stack EXCEPT ![Len(stack)].i = Top.i + 1])
    /\ UNCHANGED <<deps, fails, done, todo, seen, emitted, err, run, first, job, out>>

\* generateNode: the hook of a local or resource node, then done[n]
GenerateNodeHook ==
    /\ Running
    /\ Top.i > Len(dependencies(Top.n))
    /\ kindOf(Top.n) \in {"local", "resource"}
    /\ emitted' = Append(emitted, Invocation(Top.n))
    /\ IF failed(hookError(Top.n))
       THEN Return(hookError(Top.n)) /\ UNCHANGED done
       ELSE /\ done' = markDone(done, Top.n)
            /\ stack' = SubSeq(stack, 1, Len(stack) - 1)
            /\ UNCHANGED <<pc, err>>
    /\ UNCHANGED <<deps, fails, todo, seen, run, first, job, out>>

\* generateNode: the default case of the type switch
GenerateNodeDefault ==
    /\ Running
    /\ Top.i > Len(dependencies(Top.n))
    /\ kindOf(Top.n) \notin {"local", "resource"}
    /\ Return(ErrNodeType(Top.n))
    /\ UNCHANGED <<deps, fails, done, todo, seen, emitted, run, first, job, out>>

CheckOutputs ==
    /\ pc = "checkOutputs"
    /\ IF unsatisfiedDeps(done) # <<>>
       THEN Return(ErrUnsatisfied(unsatisfiedDeps(done)[1]))
       ELSE pc' = "outputs" /\ UNCHANGED <<err, stack>>
    /\ UNCHANGED <<deps, fails, done, todo, seen, emitted, run, first, job, out>>

GenerateOutputs ==
    /\ pc = "outputs"
    /\ emitted' = Append(emitted, Invocation("outputs"))
    /\ Return(hookError("outputs"))
    /\ UNCHANGED <<deps, fails, done, todo, seen, run, first, job, out>>

\* generate is called a second time on the same graph with the same lang
Again ==
    /\ pc = "returned" /\ run = 1
    /\ first' = [emitted |-> emitted, err |-> err]
    /\ run' = 2
    /\ pc' = "validate"
    /\ done' = {} /\ todo' = <<>> /\ seen' = {} /\ stack' = <<>>
    /\ emitted' = <<>> /\ err' = Nil
    /\ UNCHANGED <<deps, fails, job, out>>

Generate ==
    \/ ValidateProviders
    \/ GeneratePreamble
    \/ GenerateVariables
    \/ RangeLocals
    \/ LocalsDone
    \/ RangeResources
    \/ ResourcesDone
    \/ RangeTodo
    \/ TodoDone
    \/ GenerateNodeDeps
    \/ GenerateNodeHook
    \/ GenerateNodeDefault
    \/ CheckOutputs
    \/ GenerateOutputs

Next == Generate

Spec == Init /\ [][Next]_vars

NextTwice == Generate \/ Again

SpecTwice == Init /\ [][NextTwice]_vars

----------------------------------------------------------------------------
(* The serializer applied to one input. *)

emitter == <<deps, fails, pc, done, todo, seen, stack, emitted, err, run, first>>

InitSer ==
    /\ job \in Jobs
    /\ out = NoOut
    /\ deps = [n \in Nodes \cup Range(Providers) |-> <<>>]
    /\ fails = {}
    /\ pc = "idle"
    /\ done = {}
    /\ todo = <<>>
    /\ seen = {}
    /\ stack = <<>>
    /\ emitted = <<>>
    /\ err = Nil
    /\ run = 1
    /\ first = [emitted |-> <<>>, err |-> Nil]

Text(t) == [st |-> "ok", text |-> t]

ComputeProperty ==
    /\ job.op = "computeProperty" /\ out.st = "none"
    /\ out' = computeProperty(job.v, job.indent, job.sch)
    /\ UNCHANGED <<job, emitter>>

ComputeSliceProperty ==
    /\ job.op = "computeSliceProperty" /\ out.st = "none"
    /\ out' = computeSliceProperty(job.s, job.indent, job.sch)
    /\ UNCHANGED <<job, emitter>>

CoerceProperty ==
    /\ job.op = "coerceProperty" /\ out.st = "none"
    /\ out' = Text(coerceProperty(job.value, job.valueType, job.propertyType))
    /\ UNCHANGED <<job, emitter>>

TsName ==
    /\ job.op = "tsName" /\ out.st = "none"
    /\ out' = Text(tsName(job.tfName, job.sch.tf, job.sch.pulumi, job.isObjectKey))
    /\ UNCHANGED <<job, emitter>>

WalkVariableAccess ==
    /\ job.op = "walkVariableAccess" /\ out.st = "none"
    /\ out' = walkVariableAccess(job.n)
    /\ UNCHANGED <<job, emitter>>

GenerateResource ==
    /\ job.op = "generateResource" /\ out.st = "none"
    /\ out' = generateResource(job.r)
    /\ UNCHANGED <<job, emitter>>

NextSer ==
    \/ ComputeProperty
    \/ ComputeSliceProperty
    \/ CoerceProperty
    \/ TsName
    \/ WalkVariableAccess
    \/ GenerateResource

SpecSer == InitSer /\ [][NextSer]_vars

----------------------------------------------------------------------------
(* Properties of generate. *)

EmitNodes == Locals \cup Resources \cup Dangling

Hooked(h) == {i \in 1..Len(emitted) : emitted[i].hook = h}

OkBefore(i, d) == \E j \in 1..(i - 1) : emitted[j].hook = d /\ emitted[j].ok

Satisfied(i, d) == d \in emitted[i].doneAt /\ (d \in Variables \/ OkBefore(i, d))

OutputDeps == UNION {Range(deps[Outputs[k]]) : k \in 1..Len(Outputs)}

\* C1: whenever the local or resource hook is invoked for a node n, every
\* direct dependency of n is already in done (it is a variable, or its own hook
\* returned successfully strictly earlier); when the outputs hook is invoked,
\* every dependency of every output is in done.
C1_TopologicalSoundness ==
    \A i \in 1..Len(emitted) :
        /\ emitted[i].hook \in EmitNodes =>
               \A d \in Range(deps[emitted[i].hook]) : Satisfied(i, d)
        /\ emitted[i].hook = "outputs" =>
               \A d \in OutputDeps : Satisfied(i, d)

\* a resource with a resource dependency was emitted, and then the outputs,
\* one of which depends on a resource
C1_Witness ==
    /\ \E i \in 1..Len(emitted) :
           /\ emitted[i].hook \in EmitNodes
           /\ Range(deps[emitted[i].hook]) \cap EmitNodes # {}
    /\ Hooked("outputs") # {}
    /\ OutputDeps \cap EmitNodes # {}

\* C2: if after the local/resource phase some output has a dependency that is
\* not in done, generate returns the unsatisfied-dependency error and the
\* outputs hook is not invoked in that run.
C2_UnsatisfiedOutput ==
    /\ [][(pc = "checkOutputs" /\ OutputDeps \ done # {}) =>
              /\ pc' = "returned"
              /\ \E d \in OutputDeps \ done : err' = ErrUnsatisfied(d)
              /\ emitted' = emitted]_vars
    /\ []((err # Nil /\ err[1] = "output has unsatisfied dependency") =>
              (pc = "returned" /\ Hooked("outputs") = {}))

\* the run ended on an output's dependency that no list of the graph holds and
\* that lies on a cycle
C2_Witness ==
    /\ pc = "returned"
    /\ err = ErrUnsatisfied("x1")
    /\ "x1" \in Range(deps["x1"])
    /\ Hooked("outputs") = {}

\* C3: in a run that returns without error the local/resource hook was invoked
\* exactly once for every local and every resource of the graph; in no run is
\* it invoked twice for the same node.
C3_ExactlyOnce ==
    /\ \A n \in EmitNodes : Cardinality(Hooked(n)) <= 1
    /\ (pc = "returned" /\ err = Nil) =>
           \A n \in Locals \cup Resources : Cardinality(Hooked(n)) = 1

\* a successful run in which two nodes depend on one resource
C3_Witness ==
    /\ pc = "returned" /\ err = Nil
    /\ \E n \in Resources :
           Cardinality({m \in Locals \cup Resources : n \in Range(deps[m])}) = 2

\* C4: once a hook or a traversal check has returned an error, generate has
\* returned that error, no further hook is invoked, the node whose hook failed
\* is not in done and no dependent of it is emitted.
C4_FailFast ==
    /\ [](\A i \in 1..Len(emitted) :
              ~emitted[i].ok =>
                  /\ i = Len(emitted)
                  /\ pc = "returned"
                  /\ err = ErrHook(emitted[i].hook)
                  /\ emitted[i].hook \notin done)
    /\ [](err # Nil => pc = "returned")
    /\ []((err # Nil /\ err[1] # "hook failed") =>
              \A i \in 1..Len(emitted) : emitted[i].ok)
    /\ [][err # Nil => (emitted' = emitted /\ done' = done /\ err' = err)]_vars

\* a resource hook failed while another node depends on that resource
C4_Witness ==
    /\ pc = "returned"
    /\ \E n \in Resources :
           /\ err = ErrHook(n)
           /\ \E m \in Locals \cup Resources : n \in Range(deps[m])

\* C5: two runs of generate on the same graph with the same hooks emit the
\* same sequence and return the same error.
C5_Determinism ==
    (run = 2 /\ pc = "returned") => (emitted = first.emitted /\ err = first.err)

\* C9: the hook invocations are a prefix of preamble, variables, locals and
\* resources, outputs; no hook is invoked unless every provider dependency is a
\* variable; every variable is in done before the first local/resource hook;
\* nothing follows the outputs hook.
C9_PhaseOrder ==
    /\ \A i \in 1..Len(emitted) :
           /\ emitted[i].hook = "preamble" <=> i = 1
           /\ emitted[i].hook = "variables" <=> i = 2
           /\ emitted[i].hook = "outputs" => (i = Len(emitted) /\ pc = "returned")
           /\ emitted[i].hook \in EmitNodes => Variables \subseteq emitted[i].doneAt
           /\ i < Len(emitted) => emitted[i].ok
    /\ emitted # <<>> =>
           \A k \in 1..Len(Providers) : Range(deps[Providers[k]]) \subseteq Variables

\* a complete run: the provider depends on a variable, a resource was emitted
\* and then the outputs
C9_Witness ==
    /\ pc = "returned" /\ err = Nil
    /\ \E k \in 1..Len(Providers) : deps[Providers[k]] # <<>>
    /\ Len(emitted) >= 4
    /\ emitted[Len(emitted)].hook = "outputs"

----------------------------------------------------------------------------
(* Properties of the serializer. *)

\* the coercion rule
CoerceRule(text, typ, dest) ==
    IF typ = dest \/ typ # "TypeString" THEN text
    ELSE IF dest = "TypeBool"
         THEN IF text = <<"\"", "t", "r", "u", "e", "\"">> THEN <<"t", "r", "u", "e">>
              ELSE IF text = <<"\"", "f", "a", "l", "s", "e", "\"">> THEN <<"f", "a", "l", "s", "e">>
              ELSE <<"(">> \o text \o <<" ", "=", "=", "=", " ", "\"", "t", "r", "u", "e", "\"", ")">>
    ELSE IF dest \in {"TypeInt", "TypeFloat"}
         THEN <<"N", "u", "m", "b", "e", "r", ".", "p", "a", "r", "s", "e", "F", "l", "o", "a", "t", "(">> \o text \o <<")">>
    ELSE text

\* the elements and properties of a value at every depth, each with the
\* lattice type of its schema
RECURSIVE Positions(_, _)
Positions(v, sch) ==
    IF v.k = "slice"
    THEN UNION {{[path |-> <<Idx(i - 1)>>, dest |-> astType(elemSchemas(sch))]}
                \cup {[p EXCEPT !.path = <<Idx(i - 1)>> \o @] :
                          p \in Positions(v.elems[i], elemSchemas(sch))} :
                i \in 1..Len(v.elems)}
    ELSE IF v.k = "map"
    THEN UNION {{[path |-> <<key>>, dest |-> astType(propertySchemas(sch, key))]}
                \cup {[p EXCEPT !.path = <<key>> \o @] :
                          p \in Positions(v.m[key], propertySchemas(sch, key))} :
                key \in DOMAIN v.m}
    ELSE {}

\* C6: every serialized sequence element and mapping property, at every
\* depth, is emitted as the coercion rule gives it for the lattice type of its
\* own schema.
C6_CoercionEverywhere ==
    /\ (job.op = "computeProperty" /\ out.st = "ok") =>
           \A p \in Positions(job.v, job.sch) :
               \E i \in 1..Len(out.items) :
                   /\ out.items[i].path = p.path
                   /\ out.items[i].dest = p.dest
                   /\ out.items[i].out = CoerceRule(out.items[i].in, out.items[i].typ, p.dest)
    /\ (job.op = "coerceProperty" /\ out.st = "ok") =>
           out.text = CoerceRule(job.value, job.valueType, job.propertyType)

Collapses(sch) ==
    /\ sch.tf # None
    /\ IF sch.pulumi # None /\ sch.pulumi[1].MaxItemsOne # None
       THEN sch.pulumi[1].MaxItemsOne[1]
       ELSE sch.tf[1].MaxItems = 1

\* C7: under a schema marked max-items-one, computeSliceProperty gives
\* `undefined` of type Unknown for no element, what computeProperty gives for
\* the element under the element schema for one element, and the error
\* 'expected at most one item' with type Invalid for more.
C7_CollapseLaw ==
    (job.op = "computeSliceProperty" /\ out.st # "none" /\ Collapses(job.sch)) =>
        CASE Len(job.s) = 0 ->
                 out.st = "ok" /\ out.text = <<"u", "n", "d", "e", "f", "i", "n", "e", "d">> /\ out.typ = "TypeUnknown"
          [] Len(job.s) = 1 ->
                 LET r == computeProperty(job.s[1], job.indent, elemSchemas(job.sch))
                 IN  out.st = r.st /\ out.text = r.text /\ out.typ = r.typ /\ out.msg = r.msg
          [] OTHER ->
                 /\ out.st = "err"
                 /\ out.msg = "expected at most one item in list"
                 /\ out.typ = "TypeInvalid"

\* a collapsing slice of two elements was refused
C7_Witness ==
    /\ job.op = "computeSliceProperty" /\ Collapses(job.sch)
    /\ Len(job.s) = 2
    /\ out.st = "err"

\* the name translation rule
NameRule(name, tfSchema, override, isObjectKey) ==
    IF override # None /\ override[1].Name # <<>> THEN override[1].Name
    ELSE IF \E i \in 1..Len(name) : name[i] \in {" ", "-", "."}
         THEN IF isObjectKey THEN <<"\"">> \o name \o <<"\"">>
              ELSE [i \in 1..Len(name) |->
                        IF name[i] \in {" ", "-", "."} THEN "_" ELSE name[i]]
    ELSE TerraformToPulumiName(name, tfSchema, FALSE)

RECURSIVE RuleNames(_, _)
RuleNames(elements, sch) ==
    IF elements = <<>> THEN <<>>
    ELSE LET s == propertySchemas(sch, elements[1])
         IN  <<NameRule(elements[1], s.tf, s.pulumi, FALSE)>> \o RuleNames(Tail(elements), s)

\* the schema triple of a resource node whose metadata, if any, is complete
SchemasOf(typ, r) ==
    IF r.provider.info = None THEN NoSchemas
    ELSE [tf |-> None,
          tfRes |-> MapGet(r.provider.info[1].ResourcesMap, typ),
          pulumi |-> Some(SchemaInfoOf(<<>>, r.provider.info[1].Resources[typ].Fields,
                                      None, None))]

\* C8: every name derived from a source name follows the name translation
\* rule: a mapping key or identifier given to tsName, and each segment of the
\* field path of a resource reference compiled by walkVariableAccess.
C8_NameTranslation ==
    /\ (job.op = "tsName" /\ out.st = "ok") =>
           out.text = NameRule(job.tfName, job.sch.tf, job.sch.pulumi, job.isObjectKey)
    /\ (job.op = "walkVariableAccess" /\ out.st = "ok" /\ job.n.v.kind = "resource") =>
           LET v == job.n.v
               r == GraphResources[v.Type \o <<".">> \o v.Name]
           IN  out.text = resName(v.Type, v.Name) \o <<".">>
                          \o Join(RuleNames(Split(v.Field, "."), SchemasOf(v.Type, r)), <<".">>)

\* C10: generateResource and the resource branch of walkVariableAccess never
\* dereference an absent resource-info entry.
C10_AbsentMetadataSafe ==
    job.op \in {"generateResource", "walkVariableAccess"} => out.st # "panic"

====
